---- MODULE Spec2Model ----
(***************************************************************************)
(* Model of src/main.rs: a serde visitor (StreamState) that turns each     *)
(* document of the input into path-tagged records, run on a producer       *)
(* thread and handed to the consumer through sync_channel(1).              *)
(***************************************************************************)
EXTENDS Integers, Sequences, FiniteSets, TLC

\* ------------------------------------------------------------ bounds
MaxNodes == 3      \* total number of nodes of the documents of one input
MaxDocs  == 2      \* number of concatenated documents of one input

\* ------------------------------------------------------- data model
\* enum Index { Array(usize), Map(String) }
Index(tag, v) == <<tag, v>>

\* enum PrimitiveValue
Null        == <<"Null">>
Number(n)   == <<"Number", n>>
EmptyArray  == <<"EmptyArray">>
EmptyObject == <<"EmptyObject">>

\* Option<PrimitiveValue>
None    == <<"None">>
Some(v) == <<"Some", v>>

\* struct PathValue { path, value }
PathValue(p, v) == [path |-> p, value |-> v]

\* Result<PathValue>, the item type of the channel
Ok(r) == <<"Ok", r>>
Err   == <<"Err", "Deserialization error">>

\* mutant: a buffer of two items
CapacityTwo == 1 + 1

\* sync_channel(1)
Capacity == 1

\* ---------------------------------------------------------- documents
\* A document node is <<"lit", tok>>, <<"arr", <<node, ...>>>> or
\* <<"map", << <<key, node>>, ... >>>>; a key is text, <<"str", s>>, or
\* (in a document the Str seed rejects) a number, <<"num", n>>.
Keys == {<<"str", "a">>, <<"str", "b">>}
Literals == {<<"null">>, <<"num", 1>>}

RECURSIVE TreesOf(_), ForestsOf(_)
\* the sequences of nodes with n nodes in total
ForestsOf(n) ==
  IF n = 0 THEN {<<>>}
  ELSE UNION { { <<t>> \o f : t \in TreesOf(k), f \in ForestsOf(n - k) } : k \in 1..n }
\* the documents with exactly n nodes
TreesOf(n) ==
  IF n = 1 THEN {<<"lit", l>> : l \in Literals} \cup {<<"arr", <<>>>>, <<"map", <<>>>>}
  ELSE { <<"arr", f>> : f \in ForestsOf(n - 1) }
       \cup UNION { { <<"map", [j \in 1..Len(f) |-> <<ks[j], f[j]>>]>> :
                        ks \in [1..Len(f) -> Keys] } : f \in ForestsOf(n - 1) }

RECURSIVE InputsOf(_, _)
\* the inputs of at most d documents with at most n nodes in total
InputsOf(d, n) ==
  IF d = 0 \/ n = 0 THEN {<<>>}
  ELSE {<<>>} \cup UNION { { <<t>> \o r : t \in TreesOf(k), r \in InputsOf(d - 1, n - k) } : k \in 1..n }

\* {"a":[1,2],"b":{}}
ExampleDoc ==
  <<"map", << <<<<"str", "a">>, <<"arr", << <<"lit", <<"num", 1>>>>, <<"lit", <<"num", 2>>>> >>>> >>,
              <<<<"str", "b">>, <<"map", <<>>>> >> >> >>

\* [[1],{"a":null,"a":[]}]
NestedDoc ==
  <<"arr", << <<"arr", << <<"lit", <<"num", 1>>>> >> >>,
              <<"map", << <<<<"str", "a">>, <<"lit", <<"null">>>> >>,
                          <<<<"str", "a">>, <<"arr", <<>>>> >> >> >> >> >>

\* {"a":1, 2:null}: the second key is not text
BadKeyDoc ==
  <<"map", << <<<<"str", "a">>, <<"lit", <<"num", 1>>>> >>,
              <<<<"num", 2>>, <<"lit", <<"null">>>> >> >> >>

\* The token stream the parser reads for a document (separators carry no
\* behaviour of the visitor and are left out).
RECURSIVE Tokens(_), TokensOfSeq(_), TokensOfMap(_)
Tokens(t) ==
  CASE t[1] = "lit" -> <<t[2]>>
    [] t[1] = "arr" -> <<<<"[">>>> \o TokensOfSeq(t[2]) \o <<<<"]">>>>
    [] t[1] = "map" -> <<<<"{">>>> \o TokensOfMap(t[2]) \o <<<<"}">>>>
TokensOfSeq(f) == IF f = <<>> THEN <<>> ELSE Tokens(Head(f)) \o TokensOfSeq(Tail(f))
TokensOfMap(m) ==
  IF m = <<>> THEN <<>>
  ELSE <<<<"key", Head(m)[1]>>>> \o Tokens(Head(m)[2]) \o TokensOfMap(Tail(m))

\* ------------------------------------------------------------- state
VARIABLES
  docs,        \* the documents of the input (stdin), in order
  doc,         \* number of the document the multidoc iterator is at
  pos,         \* next token of the current document
  path,        \* StreamState::path of the current document
  stack,       \* the open visit_seq / visit_map calls, innermost last
  pc,          \* where the producer thread is
  pending,     \* the item of the send call the producer is in
  senders,     \* live SyncSender handles
  chan,        \* the buffer of the sync_channel
  rx,          \* the consumer: "recv", "dropped" (receiver dropped early), "ended"
  emitted,     \* per document, the records emit_value / emit_close built
  results,     \* per document, the result of Stream::deserialize
  sent,        \* the items send placed on the channel
  pulled,      \* the items the consumer received
  failedSends, \* number of sends that found no receiver
  entry,       \* the path at the start of each visit_* call in progress, innermost last
  returned     \* of the visit_* call that returned last: the path at its start,
               \* the path at its return, and "Ok" or "Err"

vars == <<docs, doc, pos, path, stack, pc, pending, senders, chan, rx,
          emitted, results, sent, pulled, failedSends, entry, returned>>

NoItem == <<"NoItem">>

\* the state when main_generic has created the channel and spawned the
\* producer thread, for an input among D
InitWith(D) ==
  /\ docs \in D
  /\ doc = 0
  /\ pos = 1
  /\ path = <<>>
  /\ stack = <<>>
  /\ pc = "iter"
  /\ pending = NoItem
  /\ senders = 1
  /\ chan = <<>>
  /\ rx = "recv"
  /\ emitted = [d \in 1..Len(docs) |-> <<>>]
  /\ results = [d \in 1..Len(docs) |-> "none"]
  /\ sent = <<>>
  /\ pulled = <<>>
  /\ failedSends = 0
  /\ entry = <<>>
  /\ returned = <<>>

\* every input within the bounds, two larger documents and one with a key
\* that is not text
Init == InitWith(InputsOf(MaxDocs, MaxNodes)
                   \cup {<<ExampleDoc>>, <<NestedDoc>>, <<BadKeyDoc>>})

\* ------------------------------------------------------------ helpers
Push(s, x) == Append(s, x)
Pop(s)     == SubSeq(s, 1, Len(s) - 1)
Top(s)     == s[Len(s)]

\* the token the parser is about to read
Tok == Tokens(docs[doc])[pos]

\* mutant: visit_unit reports null as the number 1
Primitive_nullAsNumber(tok) ==
  CASE tok[1] = "null" -> Number(1)
    [] tok[1] = "num"  -> Number(tok[2])

\* visit_unit / visit_none, visit_i64 / visit_u64 / visit_f64
Primitive(tok) ==
  CASE tok[1] = "null" -> Null
    [] tok[1] = "num"  -> Number(tok[2])

\* StreamState::emit_value: the send call is entered with a snapshot of the path
emit_value(p, v) ==
  /\ pending' = Ok(PathValue(p, Some(v)))
  /\ emitted' = [emitted EXCEPT ![doc] = Append(@, PathValue(p, Some(v)))]
  /\ pc' = "emit_value"

\* mutant: the closing record carries the composite's own path
emit_close_own(p) ==
  /\ pending' = Ok(PathValue(SubSeq(p, 1, Len(p) - 1), None))
  /\ emitted' = [emitted EXCEPT ![doc] = Append(@, PathValue(SubSeq(p, 1, Len(p) - 1), None))]
  /\ pc' = "emit_close"

\* StreamState::emit_close
emit_close(p) ==
  /\ pending' = Ok(PathValue(p, None))
  /\ emitted' = [emitted EXCEPT ![doc] = Append(@, PathValue(p, None))]
  /\ pc' = "emit_close"

\* deserialize_any(visitor) on token tok: the parser calls the visit_*
\* method of the node's kind.
VisitNode(tok) ==
  /\ pos' = pos + 1
  /\ entry' = Append(entry, path)
  /\ CASE tok[1] = "[" ->
            \* visit_seq: let mut i = 0; path.push(Array(i))
            /\ path' = Push(path, Index("Array", 0))
            /\ stack' = Push(stack, <<"seq", 0>>)
            /\ pc' = "seq"
            /\ UNCHANGED <<pending, emitted>>
       [] tok[1] = "{" ->
            \* visit_map: let mut empty = true; path.push(Map(""))
            /\ path' = Push(path, Index("Map", ""))
            /\ stack' = Push(stack, <<"map", TRUE>>)
            /\ pc' = "key"
            /\ UNCHANGED <<pending, emitted>>
       [] OTHER ->
            \* visit_bool / visit_i64 / ... / visit_unit
            /\ emit_value(path, Primitive(tok))
            /\ UNCHANGED <<path, stack>>

\* mutant: visit_seq does not advance its index after an element
ReturnOk_noIncrement(p) ==
  /\ entry' = SubSeq(entry, 1, Len(entry) - 1)
  /\ returned' = <<entry[Len(entry)], p, "Ok">>
  /\ IF stack = <<>>
     THEN /\ path' = p
          /\ results' = [results EXCEPT ![doc] = "Ok"]
          /\ senders' = senders - 1
          /\ pc' = "iter"
          /\ UNCHANGED stack
     ELSE IF Top(stack)[1] = "seq"
     THEN /\ path' = p
          /\ stack' = [stack EXCEPT ![Len(stack)] = <<"seq", Top(stack)[2] + 1>>]
          /\ pc' = "seq"
          /\ UNCHANGED <<results, senders>>
     ELSE /\ path' = p
          /\ pc' = "key"
          /\ UNCHANGED <<stack, results, senders>>

\* A visit_* call returned Ok(()) with the path stack p: control is back in
\* the caller, which is the loop of the enclosing visit_seq / visit_map or
\* Stream::deserialize.
ReturnOk(p) ==
  /\ entry' = SubSeq(entry, 1, Len(entry) - 1)
  /\ returned' = <<entry[Len(entry)], p, "Ok">>
  /\ IF stack = <<>>
     THEN \* Stream::deserialize returns Ok(Self); visitor (and its sender) dropped
          /\ path' = p
          /\ results' = [results EXCEPT ![doc] = "Ok"]
          /\ senders' = senders - 1
          /\ pc' = "iter"
          /\ UNCHANGED stack
     ELSE IF Top(stack)[1] = "seq"
     THEN \* body of the while of visit_seq: pop; i += 1; push(Array(i))
          /\ path' = Push(Pop(p), Index("Array", Top(stack)[2] + 1))
          /\ stack' = [stack EXCEPT ![Len(stack)] = <<"seq", Top(stack)[2] + 1>>]
          /\ pc' = "seq"
          /\ UNCHANGED <<results, senders>>
     ELSE \* next_value_seed returned: back to next_key_seed
          /\ path' = p
          /\ pc' = "key"
          /\ UNCHANGED <<stack, results, senders>>

\* ---------------------------------------------------------- producer
\* mutant: the path of a document starts with the document's number, as if
\* the input were one array of documents
StartDoc_docIndexPath ==
  /\ pc = "iter"
  /\ doc < Len(docs)
  /\ doc' = doc + 1
  /\ pos' = 1
  /\ path' = <<Index("Array", doc)>>
  /\ senders' = senders + 1
  /\ pc' = "node"
  /\ UNCHANGED <<entry, returned, docs, stack, pending, chan, rx, emitted, results, sent,
                 pulled, failedSends>>

\* for v in de.into_multidoc_iter::<Stream>(): the next document starts;
\* Stream::deserialize makes an empty path and clones the sender
StartDoc ==
  /\ pc = "iter"
  /\ doc < Len(docs)
  /\ doc' = doc + 1
  /\ pos' = 1
  /\ path' = <<>>
  /\ senders' = senders + 1
  /\ pc' = "node"
  /\ UNCHANGED <<entry, returned, docs, stack, pending, chan, rx, emitted, results, sent, pulled, failedSends>>

\* mutant: the thread-local SENDER outlives the document loop
EndOfInput_leak ==
  /\ pc = "iter"
  /\ doc = Len(docs)
  /\ pc' = "done"
  /\ senders' = senders
  /\ UNCHANGED <<entry, returned, docs, doc, pos, path, stack, pending, chan, rx, emitted,
                 results, sent, pulled, failedSends>>

\* the iterator is exhausted: the thread's closure returns and the
\* thread-local SENDER is dropped
EndOfInput ==
  /\ pc = "iter"
  /\ doc = Len(docs)
  /\ pc' = "done"
  /\ senders' = 0
  /\ UNCHANGED <<entry, returned, docs, doc, pos, path, stack, pending, chan, rx, emitted, results,
                 sent, pulled, failedSends>>

\* deserialize_any at the document root or at a map value (next_value_seed)
ReadNode ==
  /\ pc = "node"
  /\ VisitNode(Tok)
  /\ UNCHANGED <<returned, docs, doc, senders, chan, rx, results, sent, pulled, failedSends>>

\* mutant: visit_seq without the i == 0 case (an empty array is closed like
\* any other, its last index computed as i - 1)
SeqNext_noEmptyCheck ==
  /\ pc = "seq"
  /\ IF Tok[1] = "]"
     THEN /\ pos' = pos + 1
          /\ stack' = Pop(stack)
          /\ UNCHANGED entry
          /\ path' = Push(Pop(path), Index("Array", Top(stack)[2] - 1))
          /\ emit_close(Push(Pop(path), Index("Array", Top(stack)[2] - 1)))
     ELSE VisitNode(Tok)
  /\ UNCHANGED <<returned, docs, doc, senders, chan, rx, results, sent, pulled, failedSends>>

\* mutant: visit_seq closes with the index it pushed last (no i -= 1)
SeqNext_noDecrement ==
  /\ pc = "seq"
  /\ IF Tok[1] = "]"
     THEN /\ pos' = pos + 1
          /\ stack' = Pop(stack)
          /\ UNCHANGED entry
          /\ IF Top(stack)[2] = 0
             THEN /\ path' = Pop(path)
                  /\ emit_value(Pop(path), EmptyArray)
             ELSE /\ path' = path
                  /\ emit_close(path)
     ELSE VisitNode(Tok)
  /\ UNCHANGED <<returned, docs, doc, senders, chan, rx, results, sent, pulled, failedSends>>

\* seq.next_element_seed(&mut *self)? in visit_seq
SeqNext ==
  /\ pc = "seq"
  /\ IF Tok[1] = "]"
     THEN \* None: leave the loop
          /\ pos' = pos + 1
          /\ stack' = Pop(stack)
          /\ UNCHANGED entry
          /\ IF Top(stack)[2] = 0
             THEN /\ path' = Pop(path)
                  /\ emit_value(Pop(path), EmptyArray)
             ELSE /\ path' = Push(Pop(path), Index("Array", Top(stack)[2] - 1))
                  /\ emit_close(Push(Pop(path), Index("Array", Top(stack)[2] - 1)))
     ELSE VisitNode(Tok)
  /\ UNCHANGED <<returned, docs, doc, senders, chan, rx, results, sent, pulled, failedSends>>

\* the visitor V of the Str seed: visit_str / visit_string take the key,
\* every other kind is the Visitor default, an invalid-type error
StrKey(k) == k[1] = "str"

\* mutant: visit_map pushes the key without popping the placeholder
MapNextKey_keepPlaceholder ==
  /\ pc = "key"
  /\ pos' = pos + 1
  /\ IF Tok[1] = "}"
     THEN /\ stack' = Pop(stack)
          /\ IF Top(stack)[2]
             THEN /\ path' = Pop(path)
                  /\ emit_value(Pop(path), EmptyObject)
             ELSE /\ path' = path
                  /\ emit_close(path)
     ELSE /\ StrKey(Tok[2])
          /\ stack' = [stack EXCEPT ![Len(stack)] = <<"map", FALSE>>]
          /\ path' = IF Top(stack)[2] THEN Push(path, Index("Map", Tok[2][2]))
                                      ELSE Push(Pop(path), Index("Map", Tok[2][2]))
          /\ pc' = "node"
          /\ UNCHANGED <<pending, emitted>>
  /\ UNCHANGED <<entry, returned, docs, doc, senders, chan, rx, results, sent, pulled, failedSends>>

\* map.next_key_seed(Str)? in visit_map
MapNextKey ==
  /\ pc = "key"
  /\ pos' = pos + 1
  /\ IF Tok[1] = "}"
     THEN \* None: leave the loop
          /\ stack' = Pop(stack)
          /\ IF Top(stack)[2]
             THEN /\ path' = Pop(path)
                  /\ emit_value(Pop(path), EmptyObject)
             ELSE /\ path' = path
                  /\ emit_close(path)
     ELSE \* Some(key): empty = false; pop; push(Map(key)); next_value_seed
          /\ StrKey(Tok[2])
          /\ stack' = [stack EXCEPT ![Len(stack)] = <<"map", FALSE>>]
          /\ path' = Push(Pop(path), Index("Map", Tok[2][2]))
          /\ pc' = "node"
          /\ UNCHANGED <<pending, emitted>>
  /\ UNCHANGED <<entry, returned, docs, doc, senders, chan, rx, results, sent, pulled, failedSends>>

\* mutant: on an error the open composite is still closed before returning
ReadFail_closing ==
  /\ pc \in {"node", "seq", "key"}
  /\ stack' = <<>>
  /\ results' = [results EXCEPT ![doc] = "Err"]
  /\ senders' = senders - 1
  /\ pending' = Err
  /\ pc' = "send_err"
  /\ entry' = <<>>
  /\ returned' = IF entry = <<>> THEN returned ELSE <<entry[Len(entry)], path, "Err">>
  /\ emitted' = [emitted EXCEPT ![doc] =
                   IF stack = <<>> THEN @ ELSE Append(@, PathValue(path, None))]
  /\ UNCHANGED <<docs, doc, pos, path, chan, rx, sent, pulled, failedSends>>

\* mutant: the steps pushed by the open calls are popped when the error is
\* returned, as a scope guard would
ReadFail_popAll ==
  /\ pc \in {"node", "seq", "key"}
  /\ stack' = <<>>
  /\ results' = [results EXCEPT ![doc] = "Err"]
  /\ senders' = senders - 1
  /\ pending' = Err
  /\ pc' = "send_err"
  /\ entry' = <<>>
  /\ path' = <<>>
  /\ returned' = IF entry = <<>> THEN returned
                 ELSE <<entry[Len(entry)], entry[Len(entry)], "Err">>
  /\ UNCHANGED <<docs, doc, pos, chan, rx, emitted, sent, pulled, failedSends>>

\* The parser's read fails (malformed bytes at this position, an I/O error
\* of the reader; at a key that is not text it cannot but fail, MapNextKey
\* being closed to it): every `?` returns the error, the
\* open visit_seq / visit_map calls return without touching the path (the
\* innermost first), and
\* Stream::deserialize returns Err; the document loop then sends the
\* failure item through the thread-local SENDER.
ReadFail ==
  /\ pc \in {"node", "seq", "key"}
  /\ stack' = <<>>
  /\ results' = [results EXCEPT ![doc] = "Err"]
  /\ senders' = senders - 1
  /\ pending' = Err
  /\ pc' = "send_err"
  /\ entry' = <<>>
  /\ returned' = IF entry = <<>> THEN returned ELSE <<entry[Len(entry)], path, "Err">>
  /\ UNCHANGED <<docs, doc, pos, path, chan, rx, emitted, sent, pulled, failedSends>>

\* mutant: the document loop does not break after sending the failure item
AfterSend_noBreak ==
  /\ pending' = NoItem
  /\ CASE pc = "emit_value" -> ReturnOk(path)
       [] pc = "emit_close" -> ReturnOk(Pop(path))
       [] pc = "send_err"   ->
            /\ pc' = "iter"
            /\ senders' = senders
            /\ UNCHANGED <<path, stack, results, entry, returned>>

\* mutant: no path.pop() after emit_close
AfterSend_noPop ==
  /\ pending' = NoItem
  /\ CASE pc = "emit_value" -> ReturnOk(path)
       [] pc = "emit_close" -> ReturnOk(path)
       [] pc = "send_err"   ->
            /\ pc' = "done"
            /\ senders' = 0
            /\ UNCHANGED <<path, stack, results, entry, returned>>

\* what follows a send call, whatever it returned (.ok() discards the result)
AfterSend ==
  /\ pending' = NoItem
  /\ CASE pc = "emit_value" -> ReturnOk(path)
       [] pc = "emit_close" -> ReturnOk(Pop(path))     \* path.pop(); Ok(())
       [] pc = "send_err"   -> \* break: the thread ends, SENDER is dropped
            /\ pc' = "done"
            /\ senders' = 0
            /\ UNCHANGED <<path, stack, results, entry, returned>>

\* SyncSender::send with room in the buffer
SendOk ==
  /\ pc \in {"emit_value", "emit_close", "send_err"}
  /\ rx # "dropped"
  /\ Len(chan) < Capacity
  /\ chan' = Append(chan, pending)
  /\ sent' = Append(sent, pending)
  /\ AfterSend
  /\ UNCHANGED <<docs, doc, pos, rx, emitted, pulled, failedSends>>

\* mutant: a sender blocked on a full buffer is not woken when the receiver
\* is dropped, and a send without receiver waits for room instead of failing
SendDisconnected_stuck ==
  /\ pc \in {"emit_value", "emit_close", "send_err"}
  /\ rx = "dropped"
  /\ FALSE
  /\ UNCHANGED vars

\* SyncSender::send when the receiver is gone: Err(SendError), discarded
SendDisconnected ==
  /\ pc \in {"emit_value", "emit_close", "send_err"}
  /\ rx = "dropped"
  /\ failedSends' = failedSends + 1
  /\ AfterSend
  /\ UNCHANGED <<docs, doc, pos, chan, rx, emitted, sent, pulled>>

\* ---------------------------------------------------------- consumer
\* mutant: the received item stays in the buffer
Recv_dup ==
  /\ rx = "recv"
  /\ chan # <<>>
  /\ Len(pulled) < 8
  /\ pulled' = Append(pulled, Head(chan))
  /\ chan' = chan
  /\ UNCHANGED <<entry, returned, docs, doc, pos, path, stack, pc, pending, senders, rx, emitted,
                 results, sent, failedSends>>

\* receiver.into_iter().next() with an item in the buffer
Recv ==
  /\ rx = "recv"
  /\ chan # <<>>
  /\ pulled' = Append(pulled, Head(chan))
  /\ chan' = Tail(chan)
  /\ UNCHANGED <<entry, returned, docs, doc, pos, path, stack, pc, pending, senders, rx, emitted,
                 results, sent, failedSends>>

\* next() returns None: buffer empty and every sender dropped
RecvEnd ==
  /\ rx = "recv"
  /\ chan = <<>>
  /\ senders = 0
  /\ rx' = "ended"
  /\ UNCHANGED <<entry, returned, docs, doc, pos, path, stack, pc, pending, senders, chan, emitted,
                 results, sent, pulled, failedSends>>

\* the caller of main_generic drops the iterator before its end; what the
\* buffer holds is dropped with it
DropRx ==
  /\ rx = "recv"
  /\ rx' = "dropped"
  /\ chan' = <<>>
  /\ UNCHANGED <<entry, returned, docs, doc, pos, path, stack, pc, pending, senders, emitted,
                 results, sent, pulled, failedSends>>

Producer == StartDoc \/ EndOfInput \/ ReadNode \/ SeqNext \/ MapNextKey \/ ReadFail
            \/ SendOk \/ SendDisconnected
Consumer == Recv \/ RecvEnd \/ DropRx

Next == Producer \/ Consumer

Spec == Init /\ [][Next]_vars

\* The producer is a thread of its own: the scheduler runs it whenever it
\* can take a step. Nothing obliges the consumer to go on pulling.
FairSpec == Init /\ [][Next]_vars /\ WF_vars(Producer)

\* main's for loop over the iterator: a consumer that calls next() again
\* after each item, which returns as soon as there is an item or the
\* channel is closed
FairPull == Init /\ [][Next]_vars /\ WF_vars(Producer) /\ WF_vars(Recv \/ RecvEnd)

\* =============================================================== claims
\* ------------------------------------------- what the claims speak about
IsPrefix(s, t) == Len(s) <= Len(t) /\ SubSeq(t, 1, Len(s)) = s

RECURSIVE SumOver(_, _)
SumOver(f, n) == IF n = 0 THEN 0 ELSE f[n] + SumOver(f, n - 1)

\* the children of a composite node
Kids(t) == IF t[1] = "arr" THEN t[2] ELSE [j \in 1..Len(t[2]) |-> t[2][j][2]]

\* scalar nodes and zero-child composites of a document
RECURSIVE NumLeaves(_)
NumLeaves(t) ==
  IF t[1] = "lit" \/ t[2] = <<>> THEN 1
  ELSE SumOver([j \in 1..Len(t[2]) |-> NumLeaves(Kids(t)[j])], Len(t[2]))

\* composites with at least one child
RECURSIVE NumNonEmpty(_)
NumNonEmpty(t) ==
  IF t[1] = "lit" \/ t[2] = <<>> THEN 0
  ELSE 1 + SumOver([j \in 1..Len(t[2]) |-> NumNonEmpty(Kids(t)[j])], Len(t[2]))

IsClose(r) == r.value = None
NumValues(rs) == Cardinality({j \in 1..Len(rs) : ~IsClose(rs[j])})
NumCloses(rs) == Cardinality({j \in 1..Len(rs) : IsClose(rs[j])})

\* the records of Ok items, in order
RECURSIVE RecordsOf(_)
RecordsOf(items) ==
  IF items = <<>> THEN <<>>
  ELSE IF Head(items)[1] = "Ok" THEN <<Head(items)[2]>> \o RecordsOf(Tail(items))
  ELSE RecordsOf(Tail(items))

RECURSIVE OkItems(_)
OkItems(rs) == IF rs = <<>> THEN <<>> ELSE <<Ok(Head(rs))>> \o OkItems(Tail(rs))

RECURSIVE EmittedUpTo(_)
\* the records built for documents 1..d, in order
EmittedUpTo(d) == IF d = 0 THEN <<>> ELSE EmittedUpTo(d - 1) \o emitted[d]

AllOk == \A d \in 1..Len(docs) : results[d] = "Ok"
SomeErr == \E d \in 1..Len(docs) : results[d] = "Err"

\* every item a send call was entered with, in the order of the calls
Produced == OkItems(EmittedUpTo(Len(docs))) \o (IF SomeErr THEN <<Err>> ELSE <<>>)

\* C1: a complete traversal of a well-formed document emits exactly one
\* value-record per scalar node and per zero-child composite and exactly one
\* closing record per composite with a child, and nothing else; a consumer
\* that pulls every record of an error-free run receives exactly these.
C1_RecordCounts ==
  /\ \A d \in 1..Len(docs) :
       results[d] = "Ok" =>
         /\ NumValues(emitted[d]) = NumLeaves(docs[d])
         /\ NumCloses(emitted[d]) = NumNonEmpty(docs[d])
  /\ (rx = "ended" /\ AllOk) =>
         /\ NumValues(RecordsOf(pulled))
              = SumOver([d \in 1..Len(docs) |-> NumLeaves(docs[d])], Len(docs))
         /\ NumCloses(RecordsOf(pulled))
              = SumOver([d \in 1..Len(docs) |-> NumNonEmpty(docs[d])], Len(docs))
         /\ Len(pulled) = Len(RecordsOf(pulled))

\* a traversed document with values, zero-child composites and nested closings
C1_Witness ==
  /\ rx = "ended" /\ AllOk /\ Len(docs) >= 1
  /\ NumCloses(RecordsOf(pulled)) >= 2
  /\ \E j \in 1..Len(pulled) : pulled[j][2].value = Some(EmptyArray)

\* C2: while the receiver is not dropped, what the consumer has pulled is a
\* prefix of what the producer has emitted, nothing skipped, duplicated or
\* reordered (pulled, then the buffer, then the item of the send in progress
\* make up the emitted sequence); once the producer has terminated and the
\* buffer is drained the two are equal.
C2_PulledIsPrefix ==
  rx # "dropped" =>
    /\ IsPrefix(pulled, Produced)
    /\ pulled \o chan \o (IF pending = NoItem THEN <<>> ELSE <<pending>>) = Produced
    /\ (pc = "done" /\ chan = <<>>) => pulled = Produced

\* the consumer has drained a run of several records
C2_Witness == rx = "recv" /\ pc = "done" /\ chan = <<>> /\ Len(pulled) >= 3

\* C3: at most one item placed on the queue has not been pulled; a send
\* completes only into an empty buffer (the producer waits while the buffer
\* holds an unpulled item) and a receive completes only from a non-empty one.
C3_Backpressure ==
  /\ [](Len(sent) - Len(pulled) <= 1)
  /\ [][/\ (sent' # sent => chan = <<>>)
        /\ (pulled' # pulled => chan # <<>>)]_vars

\* the producer is in a send call while the buffer holds an unpulled item
C3_Witness ==
  /\ pc \in {"emit_value", "emit_close", "send_err"}
  /\ rx = "recv" /\ Len(chan) = 1 /\ Len(sent) = Len(pulled) + 1 /\ Len(pulled) >= 1

\* C4: at most one failure item is placed on the channel, as the last item
\* of the run: once it is sent the producer is finished, and the consumer
\* receives every record emitted before the failure ahead of it.
C4_SingleTerminalErr ==
  /\ Cardinality({d \in 1..Len(docs) : results[d] = "Err"}) <= 1
  /\ \A j \in 1..Len(sent) :
       sent[j] = Err => (j = Len(sent) /\ pc = "done")
  /\ \A j \in 1..Len(pulled) :
       pulled[j] = Err =>
         /\ j = Len(pulled)
         /\ SubSeq(pulled, 1, j - 1) = OkItems(EmittedUpTo(Len(docs)))
  /\ (pc = "done" /\ SomeErr) => results[doc] = "Err"

\* a failure item received after records, with a document left unread
C4_Witness ==
  /\ Len(pulled) >= 2 /\ pulled[Len(pulled)] = Err
  /\ doc < Len(docs)


\* the step of the last child of a composite with children
LastStep(t) ==
  IF t[1] = "arr" THEN Index("Array", Len(t[2]) - 1)
  ELSE Index("Map", t[2][Len(t[2])][1][2])

\* the step from a composite to its j-th child
StepTo(t, j) == IF t[1] = "arr" THEN Index("Array", j - 1) ELSE Index("Map", t[2][j][1][2])

RECURSIVE Concat(_, _)
Concat(f, n) == IF n = 0 THEN <<>> ELSE Concat(f, n - 1) \o f[n]

\* The records the claims describe for node t at path P: a value-record at
\* P for a scalar or a zero-child composite; for a composite with children
\* the records of the children in order, each at P and its step, then a
\* closing record at P and the step of the last child.
RECURSIVE Expected(_, _)
Expected(t, P) ==
  IF t[1] = "lit" THEN <<PathValue(P, Some(Primitive(t[2])))>>
  ELSE IF t[2] = <<>>
  THEN <<PathValue(P, Some(IF t[1] = "arr" THEN EmptyArray ELSE EmptyObject))>>
  ELSE Concat([j \in 1..Len(t[2]) |-> Expected(Kids(t)[j], Append(P, StepTo(t, j)))],
              Len(t[2]))
       \o <<PathValue(Append(P, LastStep(t)), None)>>

\* every key of every map of the document is text
RECURSIVE AllKeysText(_)
AllKeysText(t) ==
  \/ t[1] = "lit"
  \/ /\ t[1] = "map" => \A j \in 1..Len(t[2]) : t[2][j][1][1] = "str"
     /\ \A j \in 1..Len(t[2]) : AllKeysText(Kids(t)[j])

\* C5: when a read of the parser fails, nothing more is emitted for the
\* document (the failing step and every later step leave the records as
\* they were, so no open composite gets a closing record), every open
\* visit_seq / visit_map call has returned and the item to send is the
\* error, and the records emitted so far are the first records of the
\* error-free traversal, which has more. A key that is not text is such a
\* failure: no document with one is traversed to the end.
C5_ErrorStopsTraversal ==
  /\ [](\A d \in 1..Len(docs) : results[d] = "Ok" => AllKeysText(docs[d]))
  /\ [](\A d \in 1..Len(docs) :
          results[d] = "Err" =>
            /\ stack = <<>>
            /\ pc \in {"send_err", "done"}
            /\ (pc = "send_err" => pending = Err)
            /\ IsPrefix(emitted[d], Expected(docs[d], <<>>))
            /\ Len(emitted[d]) < Len(Expected(docs[d], <<>>)))
  /\ [][(\E d \in 1..Len(docs) : results'[d] = "Err") => emitted' = emitted]_vars

\* a read failed two composites deep, after a record was emitted
C5_Witness ==
  /\ doc >= 1 /\ results[doc] = "Err"
  /\ Len(path) >= 2 /\ Len(emitted[doc]) >= 1

\* C6: after the receiver is dropped the first send that finds no receiver
\* ends the producer: it reads no further node, enters no further send and
\* starts no further document (all it may still do is leave the loop).
C6_StopsAtFirstFailedSend ==
  failedSends >= 1 =>
    /\ failedSends = 1
    /\ pc \in {"iter", "done"}
    /\ pc = "iter" => doc = Len(docs)

\* C7: once the receiver is dropped the producer terminates (it is never
\* left in a send call), and a send that finds no receiver makes no
\* failure item and no error result of a traversal.
C7_DropEndsProducer ==
  /\ (rx = "dropped") ~> (pc = "done")
  /\ [][failedSends' # failedSends =>
          /\ pc' # "send_err"
          /\ pending' = NoItem
          /\ \A d \in 1..Len(docs) : results'[d] = "Err" => results[d] = "Err"]_vars

\* the receiver was dropped with an item in the buffer; later sends failed
\* and the run ended with every document traversed
C7_Witness ==
  /\ rx = "dropped" /\ pc = "done" /\ failedSends >= 2
  /\ Len(sent) = Len(pulled) + 1
  /\ Len(docs) >= 1 /\ AllOk

HasKids(t) == t[1] # "lit" /\ t[2] # <<>>

\* C8 as stated: a root composite gets no closing record, closing records
\* are emitted only for the composites below the root.
C8_NoRootClose ==
  \A d \in 1..Len(docs) :
    results[d] = "Ok" =>
      NumCloses(emitted[d])
        = NumNonEmpty(docs[d]) - (IF HasKids(docs[d]) THEN 1 ELSE 0)

\* C8 amended: no closing record carries the empty path; a root composite
\* with children gets exactly one closing record, the last record of the
\* document, carrying the one-step path of the root's last child; a root
\* without children gets none.
C8_RootCloseAtLastChild ==
  \A d \in 1..Len(docs) :
    /\ \A j \in 1..Len(emitted[d]) : IsClose(emitted[d][j]) => emitted[d][j].path # <<>>
    /\ results[d] = "Ok" =>
         LET closes1 == {j \in 1..Len(emitted[d]) :
                           IsClose(emitted[d][j]) /\ Len(emitted[d][j].path) = 1}
         IN IF HasKids(docs[d])
            THEN /\ closes1 = {Len(emitted[d])}
                 /\ emitted[d][Len(emitted[d])] = PathValue(<<LastStep(docs[d])>>, None)
            ELSE closes1 = {}

\* a traversed document whose root is a composite holding a composite
C8_Witness ==
  \E d \in 1..Len(docs) :
    /\ results[d] = "Ok" /\ HasKids(docs[d])
    /\ NumNonEmpty(docs[d]) >= 2

Rec(p, v) == Ok(PathValue(p, v))

\* C9 as stated: {"a":[1,2],"b":{}} delivers four records
C9_ExampleFourRecords ==
  (docs = <<ExampleDoc>> /\ rx = "ended" /\ AllOk) =>
    pulled = << Rec(<<Index("Map", "a"), Index("Array", 0)>>, Some(Number(1))),
                Rec(<<Index("Map", "a"), Index("Array", 1)>>, Some(Number(2))),
                Rec(<<Index("Map", "a"), Index("Array", 1)>>, None),
                Rec(<<Index("Map", "b")>>, Some(EmptyObject)) >>

\* C9 amended: {"a":[1,2],"b":{}} delivers the four records and then the
\* closing record of the root, at the path of its last child ["b"]; no
\* closing record with the empty path is delivered.
C9_ExampleFiveRecords ==
  (docs = <<ExampleDoc>> /\ rx = "ended" /\ AllOk) =>
    pulled = << Rec(<<Index("Map", "a"), Index("Array", 0)>>, Some(Number(1))),
                Rec(<<Index("Map", "a"), Index("Array", 1)>>, Some(Number(2))),
                Rec(<<Index("Map", "a"), Index("Array", 1)>>, None),
                Rec(<<Index("Map", "b")>>, Some(EmptyObject)),
                Rec(<<Index("Map", "b")>>, None) >>

\* the example document was traversed and the consumer drained the channel
C9_Witness == docs = <<ExampleDoc>> /\ rx = "ended" /\ AllOk

\* C10: every record carries the path the claim gives it: the records of a
\* document are, at every moment, the first records of Expected, and all of
\* them when the traversal has returned Ok.
C10_RecordPaths ==
  \A d \in 1..Len(docs) :
    /\ IsPrefix(emitted[d], Expected(docs[d], <<>>))
    /\ results[d] = "Ok" => emitted[d] = Expected(docs[d], <<>>)

\* a traversed document with a closing record two steps deep
C10_Witness ==
  \E d \in 1..Len(docs) :
    /\ results[d] = "Ok"
    /\ \E j \in 1..Len(emitted[d]) :
         /\ IsClose(emitted[d][j]) /\ Len(emitted[d][j].path) = 2
         /\ emitted[d][j].path[2][1] = "Map"


\* the records the claims describe for documents 1..d, in order
RECURSIVE ExpectedUpTo(_)
ExpectedUpTo(d) == IF d = 0 THEN <<>> ELSE ExpectedUpTo(d - 1) \o Expected(docs[d], <<>>)

\* C11: the records delivered for several documents are the records of the
\* documents one after the other, in input order: no document has a record
\* before every earlier document is finished, what is pulled is at all times
\* the first items of the concatenation of the documents' own records (each
\* traversed from an empty path), and all of it when the run has ended
\* without error.
C11_DocumentsInOrder ==
  /\ \A d \in 1..Len(docs) :
       /\ d > doc => emitted[d] = <<>> /\ results[d] = "none"
       /\ d < doc => results[d] = "Ok"
  /\ IsPrefix(RecordsOf(pulled), ExpectedUpTo(Len(docs)))
  /\ (rx = "ended" /\ AllOk) => pulled = OkItems(ExpectedUpTo(Len(docs)))

\* two documents with steps of their own were delivered to the end
C11_Witness ==
  /\ rx = "ended" /\ AllOk /\ Len(docs) = 2
  /\ Len(emitted[1]) >= 2 /\ emitted[1][1].path # <<>>
  /\ emitted[2] # <<>> /\ emitted[2][1].path = <<>>


\* C12: a visit call that returns Ok leaves the path stack as it found it,
\* and after a document is traversed to the end its path stack is empty.
C12_VisitRestoresPath ==
  /\ (returned # <<>> /\ returned[3] = "Ok") => returned[2] = returned[1]
  /\ (doc >= 1 /\ results[doc] = "Ok") => path = <<>>

\* a composite one step below the root has sent its closing record and
\* returned
C12_Witness ==
  /\ doc >= 1 /\ pending = NoItem /\ stack # <<>>
  /\ returned # <<>> /\ returned[3] = "Ok" /\ Len(returned[1]) = 1
  /\ emitted[doc] # <<>>
  /\ IsClose(emitted[doc][Len(emitted[doc])])
  /\ Len(emitted[doc][Len(emitted[doc])].path) = 2

\* C15 as stated: every return of a visit call, with Ok or with an error,
\* leaves the path stack as the call found it.
C15_EveryReturnRestoresPath == returned # <<>> => returned[2] = returned[1]

\* C15 amended: a return with Ok leaves the path stack as the call found
\* it; a visit_seq / visit_map that returns early with the parser's error
\* leaves the step it pushed last on the path stack (the path at its start
\* plus one step), and the path stack stays so until it is dropped with the
\* document.
C15_ErrorLeavesPushedStep ==
  returned # <<>> =>
    /\ returned[3] = "Ok" => returned[2] = returned[1]
    /\ returned[3] = "Err" =>
         /\ Len(returned[2]) = Len(returned[1]) + 1
         /\ IsPrefix(returned[1], returned[2])
         /\ path = returned[2]

\* a composite below the root returned early with an error
C15_Witness ==
  /\ returned # <<>> /\ returned[3] = "Err" /\ Len(returned[1]) >= 1
  /\ doc >= 1 /\ results[doc] = "Err"


\* the keys of each map of the document are pairwise distinct
RECURSIVE DistinctKeys(_)
DistinctKeys(t) ==
  \/ t[1] = "lit"
  \/ /\ t[1] = "map" =>
          \A j, k \in 1..Len(t[2]) : t[2][j][1] = t[2][k][1] => j = k
     /\ \A j \in 1..Len(t[2]) : DistinctKeys(Kids(t)[j])

\* a document with each map as the set of its (key, child) pairs
RECURSIVE Canon(_)
Canon(t) ==
  CASE t[1] = "lit" -> t
    [] t[1] = "arr" -> <<"arr", [j \in 1..Len(t[2]) |-> Canon(t[2][j])]>>
    [] t[1] = "map" -> <<"map", {<<t[2][j][1][2], Canon(t[2][j][2])>> : j \in 1..Len(t[2])}>>

\* the (path, value) pairs of the value-records
ValuePairs(rs) == {<<rs[j].path, rs[j].value[2]>> : j \in {k \in 1..Len(rs) : ~IsClose(rs[k])}}

\* the node a value stands for
NodeOf(v) ==
  CASE v = EmptyArray  -> <<"arr", <<>>>>
    [] v = EmptyObject -> <<"map", {}>>
    [] v = Null        -> <<"lit", <<"null">>>>
    [] OTHER           -> <<"lit", <<"num", v[2]>>>>

\* the tree at path P rebuilt from a set of (path, value) pairs
RECURSIVE Rebuild(_, _)
Rebuild(S, P) ==
  LET here  == {pr \in S : pr[1] = P}
      below == {pr \in S : Len(pr[1]) > Len(P) /\ SubSeq(pr[1], 1, Len(P)) = P}
      steps == {pr[1][Len(P) + 1] : pr \in below}
  IN IF here # {} THEN NodeOf((CHOOSE pr \in here : TRUE)[2])
     ELSE IF steps = {} THEN <<"nothing">>
     ELSE IF \E st \in steps : st[1] = "Array"
     THEN <<"arr", [j \in 1..Cardinality(steps) |-> Rebuild(S, Append(P, Index("Array", j - 1)))]>>
     ELSE <<"map", {<<st[2], Rebuild(S, Append(P, st))>> : st \in steps}>>

\* C13: for a traversed document whose maps have pairwise distinct keys,
\* the value-records have as many distinct paths as the document has
\* scalar and zero-child nodes, and the tree rebuilt from their (path,
\* value) pairs is the document.
C13_RoundTrip ==
  \A d \in 1..Len(docs) :
    (results[d] = "Ok" /\ DistinctKeys(docs[d])) =>
      /\ Cardinality({pr[1] : pr \in ValuePairs(emitted[d])}) = NumLeaves(docs[d])
      /\ Rebuild(ValuePairs(emitted[d]), <<>>) = Canon(docs[d])

\* a traversed map with two keys, one of them holding an array
C13_Witness ==
  \E d \in 1..Len(docs) :
    /\ results[d] = "Ok" /\ DistinctKeys(docs[d])
    /\ docs[d][1] = "map" /\ Len(docs[d][2]) = 2
    /\ \E j \in 1..2 : docs[d][2][j][2][1] = "arr" /\ docs[d][2][j][2][2] # <<>>


\* the zero-child composites of t at path P, in document order, each as
\* its path and the value that stands for it
RECURSIVE EmptyNodes(_, _)
EmptyNodes(t, P) ==
  IF t[1] = "lit" THEN <<>>
  ELSE IF t[2] = <<>>
  THEN <<PathValue(P, Some(IF t[1] = "arr" THEN EmptyArray ELSE EmptyObject))>>
  ELSE Concat([j \in 1..Len(t[2]) |-> EmptyNodes(Kids(t)[j], Append(P, StepTo(t, j)))],
              Len(t[2]))

\* the records of rs that are equal to r
Occurrences(rs, r) == Cardinality({j \in 1..Len(rs) : rs[j] = r})

\* the array indices of the steps of a path
ArrayIndices(p) == {p[j][2] : j \in {k \in 1..Len(p) : p[k][1] = "Array"}}

\* C14: a traversed document has, for each zero-child composite, one
\* EmptyArray / EmptyObject value-record at the composite's own path (as
\* many as there are such composites at that path), no record below that
\* path when keys are distinct, and as many closing records as composites
\* with children; visit_seq computes i - 1 only when i >= 1, so no array
\* index of a record or of the path stack is below zero.
C14_ZeroChildComposite ==
  /\ \A d \in 1..Len(docs) :
       results[d] = "Ok" =>
         LET E == EmptyNodes(docs[d], <<>>)
         IN /\ \A j \in 1..Len(E) : Occurrences(emitted[d], E[j]) = Occurrences(E, E[j])
            /\ Cardinality({j \in 1..Len(emitted[d]) :
                              emitted[d][j].value \in {Some(EmptyArray), Some(EmptyObject)}}) = Len(E)
            /\ DistinctKeys(docs[d]) =>
                 \A j \in 1..Len(E), k \in 1..Len(emitted[d]) :
                   IsPrefix(E[j].path, emitted[d][k].path) =>
                     Len(emitted[d][k].path) = Len(E[j].path)
            /\ NumCloses(emitted[d]) = NumNonEmpty(docs[d])
  /\ \A n \in ArrayIndices(path) : n >= 0
  /\ \A d \in 1..Len(docs) : \A j \in 1..Len(emitted[d]) :
       \A n \in ArrayIndices(emitted[d][j].path) : n >= 0

\* a traversed document with a zero-child array at the root and one with a
\* nested zero-child map
C14_Witness ==
  /\ Len(docs) = 2 /\ AllOk /\ pc = "done"
  /\ docs[1] = <<"arr", <<>>>> /\ emitted[1] = <<PathValue(<<>>, Some(EmptyArray))>>
  /\ docs[2] = <<"arr", <<<<"map", <<>>>>>>>>
  /\ emitted[2] = <<PathValue(<<Index("Array", 0)>>, Some(EmptyObject)),
                    PathValue(<<Index("Array", 0)>>, None)>>


\* C17: in every document's record sequence a closing record is never the
\* first record, and the record just before it has the closing record's
\* path as a prefix of its own path: the same path when that record is a
\* value-record (the last child is a scalar or a zero-child composite),
\* one step longer when it is a closing record (the last child is a
\* composite with children).
C17_ClosePrecededByLastChild ==
  \A d \in 1..Len(docs) : \A j \in 1..Len(emitted[d]) :
    IsClose(emitted[d][j]) =>
      /\ j > 1
      /\ IsPrefix(emitted[d][j].path, emitted[d][j - 1].path)
      /\ Len(emitted[d][j - 1].path) =
           Len(emitted[d][j].path) + (IF IsClose(emitted[d][j - 1]) THEN 1 ELSE 0)

\* a closing record after a value-record and a closing record after a
\* closing record, in one document
C17_Witness ==
  \E d \in 1..Len(docs) : \E j, k \in 2..Len(emitted[d]) :
    /\ IsClose(emitted[d][j]) /\ ~IsClose(emitted[d][j - 1])
    /\ IsClose(emitted[d][k]) /\ IsClose(emitted[d][k - 1])
    /\ emitted[d][k].path # <<>>

\* the children of a composite that can be read: every element of an
\* array, the values of the text keys of a map
Readable(t) == {j \in 1..Len(t[2]) : t[1] = "map" => StrKey(t[2][j][1])}

\* the paths of the readable nodes of t at path P
RECURSIVE NodePaths(_, _)
NodePaths(t, P) ==
  IF t[1] = "lit" THEN {P}
  ELSE {P} \cup UNION {NodePaths(Kids(t)[j], Append(P, StepTo(t, j))) : j \in Readable(t)}

\* the text keys of the maps of the document
RECURSIVE KeysRead(_)
KeysRead(t) ==
  IF t[1] = "lit" THEN {}
  ELSE (IF t[1] = "map" THEN {t[2][j][1][2] : j \in Readable(t)} ELSE {})
       \cup UNION {KeysRead(Kids(t)[j]) : j \in Readable(t)}

\* C18: every record's path is the path of a node of its document, so
\* each map-key step is a key read from the document (never the
\* empty-string placeholder) and each array-index step is the index of an
\* element that was read (never the next, unused index).
C18_NoPlaceholderInRecords ==
  \A d \in 1..Len(docs) : \A j \in 1..Len(emitted[d]) :
    /\ emitted[d][j].path \in NodePaths(docs[d], <<>>)
    /\ \A k \in 1..Len(emitted[d][j].path) :
         emitted[d][j].path[k][1] = "Map" =>
           /\ emitted[d][j].path[k][2] # ""
           /\ emitted[d][j].path[k][2] \in KeysRead(docs[d])

\* the empty-string placeholder is on the path stack, above the index of
\* the second element of an array whose first element has been emitted
C18_Witness ==
  /\ doc >= 1 /\ pc = "key" /\ Len(path) = 2
  /\ path[1] = Index("Array", 1)
  /\ path[2][1] = "Map" /\ path[2][2] = ""
  /\ Len(emitted[doc]) = 1
  /\ emitted[doc][1].path = <<Index("Array", 0)>>


\* the producer is in a send call that cannot return
SendBlocked ==
  /\ pc \in {"emit_value", "emit_close", "send_err"}
  /\ rx # "dropped"
  /\ Len(chan) >= Capacity

\* the consumer is in a next() call that cannot return
RecvBlocked == rx = "recv" /\ chan = <<>> /\ senders > 0

\* the run is over: producer finished, channel closed, iteration ended
Terminated == pc = "done" /\ senders = 0 /\ chan = <<>> /\ rx = "ended"

\* C16: unless the consumer drops the iterator, the run terminates: the
\* producer finishes, at which point no sender handle is left, and the
\* iteration ends only after the consumer has received every item sent,
\* the last one included. Producer and consumer are never both blocked,
\* and the consumer never waits on a finished producer.
C16_TerminatesWithoutDeadlock ==
  /\ <>(rx = "dropped" \/ Terminated)
  /\ [](pc = "done" => senders = 0)
  /\ [](rx = "ended" => pc = "done" /\ pulled = sent /\ pulled = Produced)
  /\ [](~(SendBlocked /\ RecvBlocked))
  /\ [](~(RecvBlocked /\ pc = "done"))
  /\ [](SomeErr /\ pc = "done" /\ rx # "dropped" =>
          sent # <<>> /\ sent[Len(sent)] = Err)

\* the run ended after the failure item of the second document, which the
\* consumer received last
C16_Witness ==
  /\ Terminated
  /\ Len(docs) = 2 /\ results = <<"Ok", "Err">>
  /\ Len(pulled) >= 2 /\ pulled[Len(pulled)] = Err

====
